---- MODULE Spec2Model ----
(***************************************************************************)
(* RiakMultiIndexQuery (src/riak_multi_query.py): a chainable query        *)
(* builder over a Riak bucket.  run() is a Python generator: calling it    *)
(* only creates the generator; its body (index lookups, job assembly,      *)
(* submission) executes when the caller first iterates, and every later    *)
(* iteration yields one more result.                                       *)
(*                                                                         *)
(* The store (secondary indexes) and the map/reduce engine are the riak    *)
(* client's; they are modelled by what the code hands to them: the index   *)
(* range of a lookup, the JavaScript text of the map and reduce stages.    *)
(***************************************************************************)
EXTENDS Integers, Sequences, FiniteSets, TLC

VARIABLES
    store,       \* keys of the documents stored in the bucket
    filters,     \* self._filters: sequence of [field, op, value]
    offset,      \* self._offset
    limit,       \* self._limit
    order,       \* self._order: <<>> or <<sort_key, direction>>
    mr_query,    \* self._mr_query: the map/reduce job object
    mr_inputs,   \* self._mr_inputs (set by reset(), read by nothing)
    pc,          \* the generator returned by the latest run() call
    called_with, \* the query state at the moment of that run() call
    lookups,     \* index lookups issued by that generator, in order
    submitted,   \* jobs submitted by that generator (as submitted)
    raised,      \* exception that generator raised to the caller
    pending,     \* results the engine holds for that generator
    yielded,     \* results that generator has yielded so far
    events,      \* what that generator did so far, statement by statement
    order_args,  \* arguments of the order() calls since construction or reset()
    last_call,   \* the latest builder call: its name, arguments, return value
    unstarted,   \* generators of earlier run() calls not yet iterated
    calls,       \* builder calls since construction
    runs,        \* run() bodies executed since construction or reset()
    resets       \* reset() calls since construction

vars == <<store, filters, offset, limit, order, mr_query, mr_inputs, pc,
          called_with, lookups, submitted, raised, pending, yielded, events,
          order_args, last_call, unstarted, calls, runs, resets>>

query_state == <<filters, order, offset, limit>>

-----------------------------------------------------------------------------
(* Bounds of the model.                                                    *)

MaxCalls == 2
MaxRuns == 2
MaxResets == 1
MaxFilters == 2

-----------------------------------------------------------------------------
(* Values.  A filter value is a Python 2 string (str or unicode) or       *)
(* number (int or long); a field of a document and a key of an index are   *)
(* a text (Str) or a number (Num).  Integers are kept as two limbs in base *)
(* 10^9, so that the 17-digit bound sentinels of the source keep their     *)
(* value (TLC integers have 32 bits).  The texts of the model are ASCII.   *)

Str(s) == [t |-> "str", s |-> s, hi |-> 0, lo |-> 0]
\* u'...'
Uni(s) == [t |-> "unicode", s |-> s, hi |-> 0, lo |-> 0]
Num(n) == [t |-> "int", s |-> "", hi |-> 0, lo |-> n]
\* 31L
Long(n) == [t |-> "long", s |-> "", hi |-> 0, lo |-> n]
None == [t |-> "none", s |-> "", hi |-> 0, lo |-> 0]

SentinelHi == 99999999
SentinelLo == 999999999
\* max = 99999999999999999
MaxSentinel == [t |-> "int", s |-> "", hi |-> SentinelHi, lo |-> SentinelLo]
Neg(v) == [t |-> "int", s |-> "", hi |-> 0 - v.hi, lo |-> 0 - v.lo]

\* isinstance(value, basestring)
IsString(v) == v.t \in {"str", "unicode"}

\* isinstance(value, (int, long))
IsNumber(v) == v.t \in {"int", "long"}

\* The printable ASCII characters in the order of their codes: 32 to 95,
\* and 97 to 126 (a TLA+ string cannot hold the character 96).
AsciiLow ==
    " !\"#$%&'()*+,-./0123456789:;<=>?@ABCDEFGHIJKLMNOPQRSTUVWXYZ[\\]^_"
AsciiHigh == "abcdefghijklmnopqrstuvwxyz{|}~"

CharAt(s, i) == SubSeq(s, i, i)

RECURSIVE CodesFrom(_, _)
\* The characters of s with the codes from code on.
CodesFrom(s, code) ==
    IF Len(s) = 1 THEN s :> code
    ELSE (CharAt(s, 1) :> code) @@ CodesFrom(Tail(s), code + 1)

\* The characters with their codes: tab, newline, form feed, return, and
\* the printable ones.
OrdTable ==
    ("\t" :> 9) @@ ("\n" :> 10) @@ ("\f" :> 12) @@ ("\r" :> 13)
        @@ CodesFrom(AsciiLow, 32) @@ CodesFrom(AsciiHigh, 97)

\* ord(c) of a character
Ord(c) == OrdTable[c]

Contains(s, c) == \E i \in 1..Len(s) : CharAt(s, i) = c

RECURSIVE StrLess(_, _)
\* a < b in byte order, as the index and JavaScript both compare strings.
StrLess(a, b) ==
    IF b = "" THEN FALSE
    ELSE IF a = "" THEN TRUE
    ELSE IF CharAt(a, 1) = CharAt(b, 1) THEN StrLess(Tail(a), Tail(b))
    ELSE Ord(CharAt(a, 1)) < Ord(CharAt(b, 1))

\* a = b for two keys of an index: the client sends a key as its text,
\* so that u'31' is '31' and 31L is 31.
ValueEq(a, b) ==
    IF IsNumber(a) /\ IsNumber(b) THEN a.hi = b.hi /\ a.lo = b.lo
    ELSE IF IsString(a) /\ IsString(b) THEN a.s = b.s
    ELSE FALSE

ValueLeq(a, b) ==
    IF IsNumber(a) /\ IsNumber(b)
    THEN a.hi < b.hi \/ (a.hi = b.hi /\ a.lo <= b.lo)
    ELSE IF IsString(a) /\ IsString(b)
    THEN a.s = b.s \/ StrLess(a.s, b.s)
    ELSE FALSE

\* One character of a str as repr() writes it between the quotes q.
ReprChar(c, q) ==
    IF c = q \/ c = "\\" THEN "\\" \o c
    ELSE IF c = "\t" THEN "\\t"
    ELSE IF c = "\n" THEN "\\n"
    ELSE IF c = "\r" THEN "\\r"
    ELSE IF c = "\f" THEN "\\x0c"
    ELSE c

RECURSIVE ReprChars(_, _)
ReprChars(s, q) ==
    IF s = "" THEN "" ELSE ReprChar(CharAt(s, 1), q) \o ReprChars(Tail(s), q)

\* The decimal digits of a limb below the highest, padded to nine.
Limb(n) ==
    LET d == ToString(IF n < 0 THEN 0 - n ELSE n)
    IN  SubSeq("000000000", 1, 9 - Len(d)) \o d

\* '%r' % value.  A string is quoted with ' unless it holds a ' and no ",
\* and the quote, the backslash and the control characters are escaped; a
\* unicode string has the prefix u.  A number is written in decimal; a
\* long has the suffix L.  (A byte above 126 would be written \xNN: the
\* texts of the model hold none.)
Repr(v) ==
    IF IsString(v)
    THEN LET q == IF Contains(v.s, "'") /\ ~Contains(v.s, "\"")
                  THEN "\"" ELSE "'"
         IN  (IF v.t = "unicode" THEN "u" ELSE "")
                 \o q \o ReprChars(v.s, q) \o q
    ELSE (IF v.hi = 0 THEN ToString(v.lo) ELSE ToString(v.hi) \o Limb(v.lo))
             \o (IF v.t = "long" THEN "L" ELSE "")

-----------------------------------------------------------------------------
(* The bucket: the documents of the repository's test, which store the age *)
(* as text and index it as a number, and a third one that stores the age   *)
(* as a number.                                                            *)

AllKeys == {"sree", "vishnu", "arun"}

\* bucket.new('sree', {'name': 'Sreejith', 'age': '25'}), ...
Document(k) ==
    CASE k = "sree" -> [name |-> Str("Sreejith"), age |-> Str("25")]
      [] k = "vishnu" -> [name |-> Str("Vishnu"), age |-> Str("31")]
      [] k = "arun" -> [name |-> Str("Arun"), age |-> Num(40)]

\* add_index('name_bin', 'Sreejith').add_index('age_int', 25), ...
IndexEntries(k) ==
    CASE k = "sree" -> [name_bin |-> Str("Sreejith"), age_int |-> Num(25)]
      [] k = "vishnu" -> [name_bin |-> Str("Vishnu"), age_int |-> Num(31)]
      [] k = "arun" -> [name_bin |-> Str("Arun"), age_int |-> Num(40)]

\* The bucket of the repository's test: sree and vishnu.
TestStore == {"sree", "vishnu"}

Stores == {TestStore, AllKeys}

\* The entry of the document k in an index; None when it has none.
IndexValue(k, index) ==
    IF index = "name_bin" THEN IndexEntries(k).name_bin
    ELSE IF index = "age_int" THEN IndexEntries(k).age_int
    ELSE None

\* The store's answer to client.index(bucket, index, startkey[, endkey]).run():
\* the keys whose entry equals startkey, or lies in [startkey, endkey].
IndexLookup(st, q) ==
    {k \in st :
        LET v == IndexValue(k, q.index)
        IN  /\ v # None
            /\ IF q.endkey = None
               THEN ValueEq(v, q.startkey)
               ELSE ValueLeq(q.startkey, v) /\ ValueLeq(v, q.endkey)}

-----------------------------------------------------------------------------
(* Exceptions.                                                             *)

NoError == [kind |-> "none", op |-> ""]
InvalidFilterOperation(op) == [kind |-> "InvalidFilterOperation", op |-> op]
\* a failure of the store's index lookup
StoreError == [kind |-> "StoreError", op |-> ""]
\* riak: 'Already added a bucket, can't add an object.'
InputModeError == [kind |-> "InputModeError", op |-> ""]
\* a failure of the engine, at submission or while streaming
JobError == [kind |-> "JobError", op |-> ""]

SupportedOps == {"==", ">", ">=", "<", "<="}

-----------------------------------------------------------------------------
(* _filter_to_index_query                                                  *)

NoQuery == [index |-> "", startkey |-> None, endkey |-> None]

\* Mutant: an operator outside the supported set is looked up like '=='.
filter_to_index_query_lenient(field, op, value) ==
    LET index_type == IF IsString(value) THEN "bin" ELSE "int"
        max == IF IsString(value) THEN Str("") ELSE MaxSentinel
        min == IF IsString(value) THEN Str("") ELSE Neg(MaxSentinel)
        index == field \o "_" \o index_type
    IN  IF op = ">" \/ op = ">="
        THEN [raise |-> NoError,
              query |-> [index |-> index, startkey |-> value, endkey |-> max]]
        ELSE IF op = "<" \/ op = "<="
        THEN [raise |-> NoError,
              query |-> [index |-> index, startkey |-> min, endkey |-> value]]
        ELSE [raise |-> NoError,
              query |-> [index |-> index, startkey |-> value, endkey |-> None]]

\* Mutant: the lower sentinel of a numeric index is not negated.
filter_to_index_query_min_is_max(field, op, value) ==
    LET index_type == IF IsString(value) THEN "bin" ELSE "int"
        max == IF IsString(value) THEN Str("") ELSE MaxSentinel
        min == max
        index == field \o "_" \o index_type
    IN  IF op = "=="
        THEN [raise |-> NoError,
              query |-> [index |-> index, startkey |-> value, endkey |-> None]]
        ELSE IF op = ">" \/ op = ">="
        THEN [raise |-> NoError,
              query |-> [index |-> index, startkey |-> value, endkey |-> max]]
        ELSE IF op = "<" \/ op = "<="
        THEN [raise |-> NoError,
              query |-> [index |-> index, startkey |-> min, endkey |-> value]]
        ELSE [raise |-> InvalidFilterOperation(op), query |-> NoQuery]

filter_to_index_query(field, op, value) ==
    LET index_type == IF IsString(value) THEN "bin" ELSE "int"
        max == IF IsString(value) THEN Str("") ELSE MaxSentinel
        min == IF IsString(value) THEN Str("") ELSE Neg(MaxSentinel)
        index == field \o "_" \o index_type
    IN  IF op = "=="
        THEN [raise |-> NoError,
              query |-> [index |-> index, startkey |-> value, endkey |-> None]]
        ELSE IF op = ">" \/ op = ">="
        THEN [raise |-> NoError,
              query |-> [index |-> index, startkey |-> value, endkey |-> max]]
        ELSE IF op = "<" \/ op = "<="
        THEN [raise |-> NoError,
              query |-> [index |-> index, startkey |-> min, endkey |-> value]]
        ELSE [raise |-> InvalidFilterOperation(op), query |-> NoQuery]

-----------------------------------------------------------------------------
(* The riak client's job object (riak.RiakMapReduce), as run() uses it.    *)

EmptyInputs == [k \in AllKeys |-> 0]

\* riak.RiakMapReduce(self._client)
RiakMapReduce == [mode |-> "none", inputs |-> EmptyInputs, phases |-> <<>>]

\* self._client.add(self._bucket): a new job whose input is the whole bucket
client_add_bucket == [mode |-> "bucket", inputs |-> EmptyInputs, phases |-> <<>>]

\* for key in mr_inputs: self._mr_query.add(self._bucket, key)
\* A job whose input is a bucket refuses a key; otherwise the key is appended
\* to the job's input list (inputs counts the entries per key).
mr_add_keys(job, keys) ==
    IF keys = {}
    THEN [raise |-> NoError, job |-> job]
    ELSE IF job.mode = "bucket"
    THEN [raise |-> InputModeError, job |-> job]
    ELSE [raise |-> NoError,
          job |-> [job EXCEPT !.mode = "keys",
                              !.inputs = [k \in AllKeys |->
                                  IF k \in keys THEN @[k] + 1 ELSE @[k]]]]

MapPhase(cond) ==
    [kind |-> "map", func |-> "_JS_MAP_FUNCTION", cond |-> cond, arg |-> <<>>]

ReducePhase(func, arg) ==
    [kind |-> "reduce", func |-> func, cond |-> <<>>, arg |-> arg]

mr_map(job, cond) == [job EXCEPT !.phases = Append(@, MapPhase(cond))]

mr_reduce(job, func, arg) ==
    [job EXCEPT !.phases = Append(@, ReducePhase(func, arg))]

-----------------------------------------------------------------------------
(* run(): the body of the generator, up to the submission of the job.      *)

\* 'data.%s %s %r' % filter
condition_text(f) == "data." \o f.field \o " " \o f.op \o " " \o Repr(f.value)

\* filter_condition: the conditions joined by ' && ' (kept as the sequence of
\* the conjuncts), or 'true' without filters.
filter_condition(fs) ==
    IF fs = <<>>
    THEN <<"true">>
    ELSE [i \in 1..Len(fs) |-> condition_text(fs[i])]

comparator_text(first, second, key) ==
    "function(a, b) { return " \o first \o "." \o key \o " - "
        \o second \o "." \o key \o " }"

\* Mutant: the direction is compared without regard to case.
reduce_func_any_case(ord) ==
    IF ord[2] \in {"DESC", "desc"}
    THEN comparator_text("b", "a", ord[1])
    ELSE comparator_text("a", "b", ord[1])

\* reduce_func: 'b - a' on the sort key when the direction is 'DESC',
\* 'a - b' otherwise.
reduce_func(ord) ==
    IF ord[2] = "DESC"
    THEN comparator_text("b", "a", ord[1])
    ELSE comparator_text("a", "b", ord[1])

RECURSIVE run_lookups_intersect(_, _, _, _)
\* Mutant: the keys of the lookups are intersected.
run_lookups_intersect(fs, st, fail_at, i) ==
    IF i > Len(fs)
    THEN [raise |-> NoError, lookups |-> <<>>, keys |-> {}]
    ELSE LET t == filter_to_index_query(fs[i].field, fs[i].op, fs[i].value)
         IN  IF t.raise # NoError
             THEN [raise |-> t.raise, lookups |-> <<>>, keys |-> {}]
             ELSE IF fail_at = i
             THEN [raise |-> StoreError, lookups |-> <<t.query>>, keys |-> {}]
             ELSE LET rest == run_lookups_intersect(fs, st, fail_at, i + 1)
                  IN  [raise |-> rest.raise,
                       lookups |-> <<t.query>> \o rest.lookups,
                       keys |-> IF i = Len(fs)
                                THEN IndexLookup(st, t.query)
                                ELSE IndexLookup(st, t.query) \cap rest.keys]

RECURSIVE run_lookups(_, _, _, _)
\* The loop over self._filters: each filter is translated, then its lookup is
\* run and its keys are added to mr_inputs.  fail_at is the position of the
\* lookup the store fails (0: none).
run_lookups(fs, st, fail_at, i) ==
    IF i > Len(fs)
    THEN [raise |-> NoError, lookups |-> <<>>, keys |-> {}]
    ELSE LET t == filter_to_index_query(fs[i].field, fs[i].op, fs[i].value)
         IN  IF t.raise # NoError
             THEN [raise |-> t.raise, lookups |-> <<>>, keys |-> {}]
             ELSE IF fail_at = i
             THEN [raise |-> StoreError, lookups |-> <<t.query>>, keys |-> {}]
             ELSE LET rest == run_lookups(fs, st, fail_at, i + 1)
                  IN  [raise |-> rest.raise,
                       lookups |-> <<t.query>> \o rest.lookups,
                       keys |-> IndexLookup(st, t.query) \cup rest.keys]

\* The input of the job: the whole bucket in a new job when mr_inputs is
\* empty, the keys added to self._mr_query otherwise.
job_inputs(job, keys) ==
    mr_add_keys(IF keys = {} THEN client_add_bucket ELSE job, keys)

\* Mutant: the window of the slicing stage ends at the limit.
job_stages_end_is_limit(job, fs, ord, off, lim) ==
    LET mapped == mr_map(job, filter_condition(fs))
        ordered == IF ord # <<>>
                   THEN mr_reduce(mapped, reduce_func(ord), <<>>)
                   ELSE mapped
    IN  IF lim # 0
        THEN mr_reduce(ordered, "Riak.reduceSlice", <<off, lim>>)
        ELSE ordered

\* The stages added to the job: the map stage, the ordering reduce stage when
\* an order is set, the slicing reduce stage when the limit is truthy.
job_stages(job, fs, ord, off, lim) ==
    LET mapped == mr_map(job, filter_condition(fs))
        ordered == IF ord # <<>>
                   THEN mr_reduce(mapped, reduce_func(ord), <<>>)
                   ELSE mapped
    IN  IF lim # 0
        THEN mr_reduce(ordered, "Riak.reduceSlice", <<off, off + lim>>)
        ELSE ordered

\* One statement of the body, as the generator executes it; at is the
\* position of the filter for a lookup, 0 otherwise.
Ev(kind, at) == [ev |-> kind, at |-> at]

\* The call that added the stage ph to the job.
stage_event(ph) ==
    Ev(IF ph.kind = "map" THEN "map"
       ELSE IF ph.func = "Riak.reduceSlice" THEN "slice"
       ELSE "order", 0)

\* Mutant: the job is submitted before its stages are added.
run_events_submit_early(found, input, staged) ==
    LET looked == [i \in 1..Len(found.lookups) |-> Ev("lookup", i)]
        added == IF found.keys = {}
                 THEN <<Ev("new_job", 0)>>
                 ELSE IF input.raise # NoError
                 THEN <<>>
                 ELSE [i \in 1..Cardinality(found.keys) |-> Ev("add_key", 0)]
        stages == [i \in 1..(Len(staged.phases) - Len(input.job.phases)) |->
                      stage_event(staged.phases[Len(input.job.phases) + i])]
    IN  IF found.raise # NoError
        THEN looked
        ELSE IF input.raise # NoError
        THEN looked \o added
        ELSE looked \o added \o <<Ev("submit", 0)>> \o stages

\* The statements of the body in the order run() executes them: the lookup
\* of each filter (line 103), the fall-back to the bucket (line 107) or one
\* add per candidate key (line 109), map (line 120), reduce (lines 129 and
\* 134), and the submission (line 136).  An exception ends the sequence.
\* found is the outcome of the lookups, input the job with its inputs,
\* staged the job with its stages.
run_events(found, input, staged) ==
    LET looked == [i \in 1..Len(found.lookups) |-> Ev("lookup", i)]
        added == IF found.keys = {}
                 THEN <<Ev("new_job", 0)>>
                 ELSE IF input.raise # NoError
                 THEN <<>>
                 ELSE [i \in 1..Cardinality(found.keys) |-> Ev("add_key", 0)]
        stages == [i \in 1..(Len(staged.phases) - Len(input.job.phases)) |->
                      stage_event(staged.phases[Len(input.job.phases) + i])]
    IN  IF found.raise # NoError
        THEN looked
        ELSE IF input.raise # NoError
        THEN looked \o added
        ELSE looked \o added \o stages \o <<Ev("submit", 0)>>

\* Mutant: the job is assembled before the lookups are run.
run_body_stages_first(job, fs, ord, off, lim, st, fail_at) ==
    LET found == run_lookups(fs, st, fail_at, 1)
        input == job_inputs(job, found.keys)
        staged == job_stages(input.job, fs, ord, off, lim)
        done == run_events(found, input, staged)
    IN  IF found.raise # NoError
        THEN [raise |-> found.raise, lookups |-> found.lookups,
              job |-> job_stages(job, fs, ord, off, lim), submit |-> FALSE,
              events |-> done]
        ELSE IF input.raise # NoError
        THEN [raise |-> input.raise, lookups |-> found.lookups,
              job |-> job, submit |-> FALSE, events |-> done]
        ELSE [raise |-> NoError, lookups |-> found.lookups,
              job |-> staged, submit |-> TRUE, events |-> done]

\* What the body does before it submits: the exception it raises (if any),
\* the lookups it issued, self._mr_query as it leaves it, whether it
\* reaches the submission, and the statements it executed.
run_body(job, fs, ord, off, lim, st, fail_at) ==
    LET found == run_lookups(fs, st, fail_at, 1)
        input == job_inputs(job, found.keys)
        staged == job_stages(input.job, fs, ord, off, lim)
        done == run_events(found, input, staged)
    IN  IF found.raise # NoError
        THEN [raise |-> found.raise, lookups |-> found.lookups,
              job |-> job, submit |-> FALSE, events |-> done]
        ELSE IF input.raise # NoError
        THEN [raise |-> input.raise, lookups |-> found.lookups,
              job |-> job, submit |-> FALSE, events |-> done]
        ELSE [raise |-> NoError, lookups |-> found.lookups,
              job |-> staged, submit |-> TRUE, events |-> done]

-----------------------------------------------------------------------------
(* The inputs of the model.                                                *)

Flt(field, op, value) == [field |-> field, op |-> op, value |-> value]

\* Filters a query is built from: each supported operator, values of the
\* four kinds (str, unicode, int, long), '<' and '<=' with a number that a
\* stored age equals, a text that holds a quote, and an operator outside
\* the supported set.
FilterChoices ==
    { Flt("name", "==", Str("Vishnu")),
      Flt("age", "<", Num(31)),
      Flt("age", "<=", Num(31)),
      Flt("name", "<=", Str("O'Hara")),
      Flt("age", ">=", Long(31)),
      Flt("name", ">", Uni("Sreejith")),
      Flt("age", "LIKE", Num(30)) }

\* Filters the filter() calls of the state machine draw from.
CallFilters ==
    { Flt("name", "==", Str("Vishnu")),
      Flt("age", "LIKE", Num(30)),
      Flt("name", "~", Str("Vishnu")) }

\* Arguments the offset(), limit() and order() calls of the state machine
\* draw from; limit() is called without argument or with one.
CallOffsets == { -1 }
CallLimits == { <<>>, <<1>> }
CallOrders == { <<"age", "DESC">>, <<"name", "desc">> }

OrderChoices == { <<"age", "ASC">>, <<"age", "DESC">> }
OffsetChoices == { -1, 0, 1 }
LimitChoices == { -1, 0, 1 }

FilterLists == UNION { [1..n -> FilterChoices] : n \in 0..MaxFilters }

-----------------------------------------------------------------------------
(* The engine: what a submitted job computes.  The map stage is the        *)
(* _JS_MAP_FUNCTION of the source; a reduce stage is the JavaScript the    *)
(* source hands over, applied to the list the stage before it emitted.     *)

IsSpace(c) == c \in {" ", "\t", "\n", "\f", "\r"}

RECURSIVE Trim(_)
\* s without the white space at its ends
Trim(s) ==
    IF s = "" THEN ""
    ELSE IF IsSpace(CharAt(s, 1)) THEN Trim(Tail(s))
    ELSE IF IsSpace(CharAt(s, Len(s))) THEN Trim(SubSeq(s, 1, Len(s) - 1))
    ELSE s

Digits == {"0", "1", "2", "3", "4", "5", "6", "7", "8", "9"}

IsDigits(s) == s # "" /\ \A i \in 1..Len(s) : CharAt(s, i) \in Digits

RECURSIVE DigitsValue(_)
DigitsValue(s) ==
    IF s = "" THEN 0
    ELSE DigitsValue(SubSeq(s, 1, Len(s) - 1)) * 10 + (Ord(CharAt(s, Len(s))) - 48)

\* The number a string of decimal digits spells, in limbs of nine digits.
DigitsNumber(s) ==
    IF Len(s) <= 9
    THEN Num(DigitsValue(s))
    ELSE [t |-> "int", s |-> "",
          hi |-> DigitsValue(SubSeq(s, 1, Len(s) - 9)),
          lo |-> DigitsValue(SubSeq(s, Len(s) - 8, Len(s)))]

\* JavaScript's conversion of a string to a number: 0 for an empty or blank
\* string, the integer for an optionally signed string of decimal digits,
\* NaN (None) for any other string of the model.  (Strings in the fraction,
\* exponent, hexadecimal or Infinity notations are not values of the
\* model.)
StrToNumber(s) ==
    LET u == Trim(s)
        signed == u # "" /\ CharAt(u, 1) \in {"+", "-"}
        digits == IF signed THEN Tail(u) ELSE u
    IN  IF u = "" THEN Num(0)
        ELSE IF ~IsDigits(digits) THEN None
        ELSE IF signed /\ CharAt(u, 1) = "-" THEN Neg(DigitsNumber(digits))
        ELSE DigitsNumber(digits)

\* JavaScript's ToNumber of a value of the model; undefined gives NaN.
JsToNumber(v) ==
    IF v.t = "int" THEN v
    ELSE IF v.t = "str" THEN StrToNumber(v.s)
    ELSE None

\* JavaScript's comparison of a document field with a literal: two strings
\* are compared as strings; otherwise both operands are converted to
\* numbers, and a comparison with NaN is false.  (Numbers are compared
\* exactly; JavaScript rounds those beyond 2^53.)
JsCompare(op, a, b) ==
    IF a.t = "str" /\ b.t = "str"
    THEN CASE op = "==" -> a.s = b.s
           [] op = "<"  -> StrLess(a.s, b.s)
           [] op = "<=" -> a.s = b.s \/ StrLess(a.s, b.s)
           [] op = ">"  -> StrLess(b.s, a.s)
           [] op = ">=" -> a.s = b.s \/ StrLess(b.s, a.s)
           [] OTHER     -> FALSE
    ELSE LET x == JsToNumber(a)
             y == JsToNumber(b)
         IN  IF x = None \/ y = None
             THEN FALSE
             ELSE CASE op = "==" -> x = y
                    [] op = "<"  -> ValueLeq(x, y) /\ x # y
                    [] op = "<=" -> ValueLeq(x, y)
                    [] op = ">"  -> ValueLeq(y, x) /\ x # y
                    [] op = ">=" -> ValueLeq(y, x)
                    [] OTHER     -> FALSE

HexDigits == "0123456789abcdef"

\* The value of a hexadecimal digit.
HexValue(c) == (CHOOSE i \in 1..Len(HexDigits) : CharAt(HexDigits, i) = c) - 1

\* The character with a code.
Chr(code) == CHOOSE c \in DOMAIN OrdTable : OrdTable[c] = code

RECURSIVE JsStringChars(_)
\* The characters that the body of a JavaScript string literal denotes:
\* \t, \n, \r and \xNN are the character with that code, any other
\* escaped character is itself.
JsStringChars(s) ==
    IF s = "" THEN ""
    ELSE IF CharAt(s, 1) # "\\" THEN CharAt(s, 1) \o JsStringChars(Tail(s))
    ELSE IF CharAt(s, 2) = "x"
    THEN Chr(HexValue(CharAt(s, 3)) * 16 + HexValue(CharAt(s, 4)))
             \o JsStringChars(SubSeq(s, 5, Len(s)))
    ELSE (CASE CharAt(s, 2) = "t" -> "\t"
            [] CharAt(s, 2) = "n" -> "\n"
            [] CharAt(s, 2) = "r" -> "\r"
            [] OTHER -> CharAt(s, 2))
             \o JsStringChars(SubSeq(s, 3, Len(s)))

RECURSIVE JsStringEnds(_, _)
\* The body of a string literal between the quotes q is well formed: it
\* holds no quote q and no backslash but in an escape sequence.
JsStringEnds(s, q) ==
    IF s = "" THEN TRUE
    ELSE IF CharAt(s, 1) = q THEN FALSE
    ELSE IF CharAt(s, 1) # "\\" THEN JsStringEnds(Tail(s), q)
    ELSE IF Len(s) < 2 THEN FALSE
    ELSE IF CharAt(s, 2) = "x"
    THEN /\ Len(s) >= 4
         /\ Contains(HexDigits, CharAt(s, 3))
         /\ Contains(HexDigits, CharAt(s, 4))
         /\ JsStringEnds(SubSeq(s, 5, Len(s)), q)
    ELSE JsStringEnds(SubSeq(s, 3, Len(s)), q)

\* The value JavaScript reads from the text of a literal: a string between
\* single or double quotes, or an optionally negated decimal integer.  Any
\* other text of the model is a syntax error (None): u'Vishnu' is a name
\* followed by a string, 31L a number followed by a name.
JsLiteral(s) ==
    IF Len(s) >= 2 /\ CharAt(s, 1) \in {"'", "\""}
    THEN IF /\ CharAt(s, Len(s)) = CharAt(s, 1)
            /\ JsStringEnds(SubSeq(s, 2, Len(s) - 1), CharAt(s, 1))
         THEN Str(JsStringChars(SubSeq(s, 2, Len(s) - 1)))
         ELSE None
    ELSE IF IsDigits(s) THEN DigitsNumber(s)
    ELSE IF Len(s) >= 2 /\ CharAt(s, 1) = "-" /\ IsDigits(Tail(s))
    THEN Neg(DigitsNumber(Tail(s)))
    ELSE None

\* The position of the first space of s.
FirstSpace(s) ==
    CHOOSE i \in 1..Len(s) :
        CharAt(s, i) = " " /\ \A j \in 1..(i - 1) : CharAt(s, j) # " "

\* The comparison operators of JavaScript that a filter can name.
JsOperators == {"==", "<", "<=", ">", ">="}

\* The comparison that JavaScript reads from the text 'data.<field> <op>
\* <literal>': the property of data, the operator and the value of the
\* literal.  The value is None when the text is a syntax error.
JsParseText(text) ==
    LET rest == SubSeq(text, 6, Len(text))
        i == FirstSpace(rest)
        after == SubSeq(rest, i + 1, Len(rest))
        j == FirstSpace(after)
        op == SubSeq(after, 1, j - 1)
    IN  [field |-> SubSeq(rest, 1, i - 1),
         op |-> op,
         value |-> IF op \in JsOperators
                   THEN JsLiteral(SubSeq(after, j + 1, Len(after)))
                   ELSE None]

\* The texts of the comparisons that a predicate of the model can hold,
\* each with the comparison that JavaScript reads from it.
JsParse ==
    {<<text, JsParseText(text)>> :
        text \in {condition_text(g) : g \in FilterChoices \cup CallFilters}}

\* The comparison read from the text of one conjunct.
JsParsed(text) == (CHOOSE p \in JsParse : p[1] = text)[2]

\* The predicate compiles: each conjunct is true or a comparison.
JsValid(cond) ==
    \A i \in 1..Len(cond) : cond[i] = "true" \/ JsParsed(cond[i]).value # None

\* One conjunct of the predicate, evaluated on a parsed document.
JsConjunct(text, data) ==
    IF text = "true"
    THEN TRUE
    ELSE LET f == JsParsed(text)
         IN  JsCompare(f.op, data[f.field], f.value)

\* if(%s) { return [[v.key, data]]; } return [];
JsMapFunction(cond, k) ==
    LET data == Document(k)
    IN  IF \A i \in 1..Len(cond) : JsConjunct(cond[i], data)
        THEN {[key |-> k, data |-> data]}
        ELSE {}

\* A property of an emitted element.  The element is the pair [v.key, data]:
\* it has the properties 0 and 1, and no property named after a field.
JsProperty(elem, prop) ==
    IF prop = "0" THEN Str(elem.key)
    ELSE None

\* x - y, by its sign.  Both operands are converted to numbers (a string
\* to the number it spells); the difference is NaN when an operand is
\* undefined or a string that spells no number.
JsMinus(x, y) ==
    LET a == JsToNumber(x)
        b == JsToNumber(y)
    IN  IF a = None \/ b = None THEN "NaN"
        ELSE IF a.hi = b.hi /\ a.lo = b.lo THEN "zero"
        ELSE IF a.hi < b.hi \/ (a.hi = b.hi /\ a.lo < b.lo) THEN "neg"
        ELSE "pos"

\* The texts of the comparators, each with the operand that stands first
\* and the property that JavaScript reads from it.
JsParseComparator ==
    {<<comparator_text(d[1], IF d[1] = "a" THEN "b" ELSE "a", d[2]), d>> :
        d \in {"a", "b"} \X {"age", "name"}}

\* The comparator of an ordering stage applied to two emitted elements.
JsComparator(func, a, b) ==
    LET c == (CHOOSE p \in JsParseComparator : p[1] = func)[2]
    IN  IF c[1] = "a"
        THEN JsMinus(JsProperty(a, c[2]), JsProperty(b, c[2]))
        ELSE JsMinus(JsProperty(b, c[2]), JsProperty(a, c[2]))

IndexPermutations(n) ==
    {p \in [1..n -> 1..n] : \A i, j \in 1..n : i # j => p[i] # p[j]}

\* The orders a list can leave a sort in: every arrangement in which no
\* element stands before one the comparator puts it after.
JsSort(seq, func) ==
    {r \in {[i \in 1..Len(seq) |-> seq[p[i]]] : p \in IndexPermutations(Len(seq))} :
        \A i, j \in 1..Len(seq) :
            i < j => JsComparator(func, r[i], r[j]) # "pos"}

\* Riak.reduceSlice: value.slice(start, end)
JsSlice(seq, start, end) ==
    LET n == Len(seq)
        from == IF start < 0
                THEN (IF n + start < 0 THEN 0 ELSE n + start)
                ELSE (IF start > n THEN n ELSE start)
        to == IF end < 0
              THEN (IF n + end < 0 THEN 0 ELSE n + end)
              ELSE (IF end > n THEN n ELSE end)
    IN  IF from < to THEN SubSeq(seq, from + 1, to) ELSE <<>>

RECURSIVE ReduceStages(_, _, _)
\* The reduce stages from stage i on, applied to each list of seqs.
ReduceStages(phases, i, seqs) ==
    IF i > Len(phases)
    THEN seqs
    ELSE ReduceStages(phases, i + 1,
            IF phases[i].func = "Riak.reduceSlice"
            THEN {JsSlice(s, phases[i].arg[1], phases[i].arg[2]) : s \in seqs}
            ELSE UNION {JsSort(s, phases[i].func) : s \in seqs})

\* The inputs of a job: the keys of the bucket, or the entries of its list.
JobInputs(job, st) ==
    IF job.mode = "bucket"
    THEN {<<k, 1>> : k \in st}
    ELSE {e \in AllKeys \X (1..MaxRuns) : e[2] <= job.inputs[e[1]]}

\* The result lists the engine can stream back for a job.  A job that holds
\* a second map stage fails: that stage is handed the pairs the first one
\* emitted, which have no v.values.  A job whose map function does not
\* compile fails.  The order in which the map stage emits is the engine's.
Execute(job, st) ==
    IF \/ job.phases = <<>>
       \/ job.phases[1].kind # "map"
       \/ \E i \in 2..Len(job.phases) : job.phases[i].kind = "map"
       \/ ~JsValid(job.phases[1].cond)
    THEN {[raise |-> JobError, results |-> <<>>]}
    ELSE LET ins == JobInputs(job, st)
             emitted == {e \in ins : JsMapFunction(job.phases[1].cond, e[1]) # {}}
             lists == {[i \in 1..Cardinality(emitted) |->
                           [key |-> q[i][1], data |-> Document(q[i][1])]] :
                       q \in {p \in [1..Cardinality(emitted) -> emitted] :
                                \A i, j \in 1..Cardinality(emitted) :
                                    i # j => p[i] # p[j]}}
         IN  {[raise |-> NoError, results |-> r] :
                 r \in ReduceStages(job.phases, 2, lists)}

-----------------------------------------------------------------------------
(* The builder.                                                            *)

\* A builder call as the caller sees it: the method, the arguments given
\* and what it returned ('return self').
Call(name, args) == [name |-> name, args |-> args, returned |-> "self"]
NoCall == [name |-> "none", args |-> <<>>, returned |-> "none"]

InitBuilder ==
    /\ mr_query = RiakMapReduce
    /\ mr_inputs = {}
    /\ filters = <<>>
    /\ offset = 0
    /\ limit = 0
    /\ order = <<>>

NoGenerator ==
    /\ pc = "none"
    /\ called_with = <<<<>>, <<>>, 0, 0>>
    /\ lookups = <<>>
    /\ submitted = <<>>
    /\ raised = NoError
    /\ pending = <<>>
    /\ yielded = <<>>
    /\ events = <<>>

\* __init__: the state after construction, on the bucket of the test
Init ==
    /\ store = TestStore
    /\ InitBuilder
    /\ NoGenerator
    /\ order_args = <<>>
    /\ last_call = NoCall
    /\ unstarted = 0
    /\ calls = 0
    /\ runs = 0
    /\ resets = 0

generator ==
    <<pc, called_with, lookups, submitted, raised, pending, yielded, events>>

\* Mutant: reset() keeps the job object.
Reset_keeps_job ==
    /\ resets < MaxResets
    /\ mr_inputs' = {}
    /\ filters' = <<>>
    /\ offset' = 0
    /\ limit' = 0
    /\ order' = <<>>
    /\ order_args' = <<>>
    /\ last_call' = NoCall
    /\ runs' = 0
    /\ resets' = resets + 1
    /\ UNCHANGED <<store, mr_query, generator, unstarted, calls>>

\* reset()
Reset ==
    /\ resets < MaxResets
    /\ mr_query' = RiakMapReduce
    /\ mr_inputs' = {}
    /\ filters' = <<>>
    /\ offset' = 0
    /\ limit' = 0
    /\ order' = <<>>
    /\ order_args' = <<>>
    /\ last_call' = NoCall
    /\ runs' = 0
    /\ resets' = resets + 1
    /\ UNCHANGED <<store, generator, unstarted, calls>>

\* Mutant: filter() replaces the filters there are.
Filter_replaces ==
    /\ calls < MaxCalls
    /\ \E f \in CallFilters :
          /\ filters' = <<f>>
          /\ last_call' = Call("filter", <<f>>)
    /\ calls' = calls + 1
    /\ UNCHANGED <<store, offset, limit, order, mr_query, mr_inputs,
                   generator, order_args, unstarted, runs, resets>>

\* filter(field, op, value)
Filter ==
    /\ calls < MaxCalls
    /\ \E f \in CallFilters :
          /\ filters' = Append(filters, f)
          /\ last_call' = Call("filter", <<f>>)
    /\ calls' = calls + 1
    /\ UNCHANGED <<store, offset, limit, order, mr_query, mr_inputs,
                   generator, order_args, unstarted, runs, resets>>

\* Mutant: a negative offset is stored as 0.
Offset_clamps_negative ==
    /\ calls < MaxCalls
    /\ \E n \in CallOffsets :
          /\ offset' = IF n < 0 THEN 0 ELSE n
          /\ last_call' = Call("offset", <<n>>)
    /\ calls' = calls + 1
    /\ UNCHANGED <<store, filters, limit, order, mr_query, mr_inputs,
                   generator, order_args, unstarted, runs, resets>>

\* offset(offset)
Offset ==
    /\ calls < MaxCalls
    /\ \E n \in CallOffsets :
          /\ offset' = n
          /\ last_call' = Call("offset", <<n>>)
    /\ calls' = calls + 1
    /\ UNCHANGED <<store, filters, limit, order, mr_query, mr_inputs,
                   generator, order_args, unstarted, runs, resets>>

\* limit(limit=0): the parameter is 0 when the call gives no argument
Limit ==
    /\ calls < MaxCalls
    /\ \E a \in CallLimits :
          /\ limit' = IF a = <<>> THEN 0 ELSE a[1]
          /\ last_call' = Call("limit", a)
    /\ calls' = calls + 1
    /\ UNCHANGED <<store, filters, offset, order, mr_query, mr_inputs,
                   generator, order_args, unstarted, runs, resets>>

\* order(sort_key, order='ASC')
Order ==
    /\ calls < MaxCalls
    /\ \E o \in CallOrders :
          /\ order' = o
          /\ order_args' = Append(order_args, o)
          /\ last_call' = Call("order", o)
    /\ calls' = calls + 1
    /\ UNCHANGED <<store, filters, offset, limit, mr_query, mr_inputs,
                   generator, unstarted, runs, resets>>

\* run(timeout): the call creates the generator and executes nothing.  The
\* generator of the call before, when it was not iterated yet, stays usable:
\* it joins the unstarted ones.
RunCall ==
    /\ runs + unstarted + (IF pc = "created" THEN 1 ELSE 0) < MaxRuns
    /\ unstarted' = unstarted + (IF pc = "created" THEN 1 ELSE 0)
    /\ pc' = "created"
    /\ called_with' = query_state
    /\ lookups' = <<>>
    /\ submitted' = <<>>
    /\ raised' = NoError
    /\ pending' = <<>>
    /\ yielded' = <<>>
    /\ events' = <<>>
    /\ UNCHANGED <<store, filters, offset, limit, order, mr_query, mr_inputs,
                   order_args, last_call, calls, runs, resets>>

\* The first iteration of the generator: the body runs on the builder as it
\* is now, submits the job and yields the first result.  fail_at is the
\* lookup the store fails (0: none); the engine completes the job or fails
\* it.
RunEffects ==
    /\ pc = "created"
    /\ runs < MaxRuns
    /\ \E fail_at \in 0..Len(filters) :
        LET body == run_body(mr_query, filters, order, offset, limit,
                             store, fail_at)
        IN  /\ mr_query' = body.job
            /\ lookups' = body.lookups
            /\ IF ~body.submit
               THEN /\ submitted' = <<>>
                    /\ raised' = body.raise
                    /\ pc' = "failed"
                    /\ pending' = <<>>
                    /\ yielded' = <<>>
                    /\ events' = body.events
               ELSE /\ submitted' = <<body.job>>
                    /\ \E out \in Execute(body.job, store)
                                   \cup {[raise |-> JobError, results |-> <<>>]} :
                        /\ raised' = out.raise
                        /\ pc' = IF out.raise # NoError THEN "failed"
                                 ELSE IF out.results = <<>> THEN "done"
                                 ELSE "streaming"
                        /\ yielded' = IF out.results = <<>> THEN <<>>
                                      ELSE <<Head(out.results)>>
                        /\ pending' = IF out.results = <<>> THEN <<>>
                                      ELSE Tail(out.results)
                        /\ events' = IF out.results = <<>> THEN body.events
                                     ELSE Append(body.events, Ev("yield", 0))
    /\ runs' = runs + 1
    /\ UNCHANGED <<store, mr_inputs, called_with, order_args, last_call,
                   unstarted, calls, resets>>

\* Mutant: the body consumes the filters.
FirstNext_clears_filters ==
    /\ RunEffects
    /\ filters' = <<>>
    /\ UNCHANGED <<offset, limit, order>>

FirstNext ==
    /\ RunEffects
    /\ UNCHANGED <<filters, offset, limit, order>>

\* The first iteration of a generator of an earlier run() call: the body
\* runs on the builder as it is now, as in FirstNext.  What that generator
\* yields goes to its own caller; its later iterations touch nothing of the
\* builder.
OlderFirstNext ==
    /\ unstarted > 0
    /\ runs < MaxRuns
    /\ mr_query' \in {run_body(mr_query, filters, order, offset, limit,
                                store, fail_at).job : fail_at \in 0..Len(filters)}
    /\ unstarted' = unstarted - 1
    /\ runs' = runs + 1
    /\ UNCHANGED <<store, filters, offset, limit, order, mr_inputs, generator,
                   order_args, last_call, calls, resets>>

\* Mutant: an iteration takes a result from the engine and yields nothing.
NextResult_drops ==
    /\ pc = "streaming"
    /\ IF pending = <<>>
       THEN pc' = "done" /\ UNCHANGED <<yielded, pending, events>>
       ELSE /\ pending' = Tail(pending)
            /\ UNCHANGED <<pc, yielded, events>>
    /\ UNCHANGED <<store, filters, offset, limit, order, mr_query, mr_inputs,
                   called_with, lookups, submitted, raised, order_args,
                   last_call, unstarted, calls, runs, resets>>

\* for result in self._mr_query.run(timeout): yield result
NextResult ==
    /\ pc = "streaming"
    /\ IF pending = <<>>
       THEN pc' = "done" /\ UNCHANGED <<yielded, pending, events>>
       ELSE /\ yielded' = Append(yielded, Head(pending))
            /\ pending' = Tail(pending)
            /\ events' = Append(events, Ev("yield", 0))
            /\ UNCHANGED pc
    /\ UNCHANGED <<store, filters, offset, limit, order, mr_query, mr_inputs,
                   called_with, lookups, submitted, raised, order_args,
                   last_call, unstarted, calls, runs, resets>>

\* The engine fails while the results are streamed.
StreamFail ==
    /\ pc = "streaming"
    /\ pending # <<>>
    /\ pc' = "failed"
    /\ raised' = JobError
    /\ UNCHANGED <<store, filters, offset, limit, order, mr_query, mr_inputs,
                   called_with, lookups, submitted, pending, yielded, events,
                   order_args, last_call, unstarted, calls, runs, resets>>

Next ==
    \/ Reset
    \/ Filter
    \/ Offset
    \/ Limit
    \/ Order
    \/ RunCall
    \/ FirstNext
    \/ OlderFirstNext
    \/ NextResult
    \/ StreamFail

Spec == Init /\ [][Next]_vars

-----------------------------------------------------------------------------
(* Queries: a builder just constructed, given any chain of calls.          *)

InitQuery ==
    /\ store \in Stores
    /\ mr_query = RiakMapReduce
    /\ mr_inputs = {}
    /\ filters \in FilterLists
    /\ offset \in OffsetChoices
    /\ limit \in LimitChoices
    /\ order \in OrderChoices \cup {<<>>}
    /\ NoGenerator
    /\ order_args = IF order = <<>> THEN <<>> ELSE <<order>>
    /\ last_call = NoCall
    /\ unstarted = 0
    /\ calls = MaxCalls
    /\ runs = 0
    /\ resets = 0

NextQuery ==
    \/ RunCall
    \/ FirstNext
    \/ OlderFirstNext
    \/ NextResult
    \/ StreamFail

SpecQuery == InitQuery /\ [][NextQuery]_vars

-----------------------------------------------------------------------------
(* What the claims speak of.                                               *)

\* The body of the latest generator has executed.
Executed == pc \in {"streaming", "done", "failed"}

\* The step in which the body of the generator executes.
BodyStep == pc = "created" /\ pc' # "created"

Job == submitted[1]

Supported(fs) == \A i \in 1..Len(fs) : fs[i].op \in SupportedOps

\* The lookup a filter with a supported operator translates to.
LookupOf(f) == filter_to_index_query(f.field, f.op, f.value).query

\* The keys the store returns for the lookups of all the filters fs.
UnionOfLookups(fs) ==
    UNION {IndexLookup(store, LookupOf(fs[i])) : i \in 1..Len(fs)}

\* The input list that holds each key of S once.
Once(S) == [k \in AllKeys |-> IF k \in S THEN 1 ELSE 0]

StagesOf(job, P(_)) == {i \in 1..Len(job.phases) : P(job.phases[i])}
IsMap(ph) == ph.kind = "map"
IsSlice(ph) == ph.kind = "reduce" /\ ph.func = "Riak.reduceSlice"
IsOrdering(ph) == ph.kind = "reduce" /\ ph.func # "Riak.reduceSlice"

\* The number a field or a filter value stands for: itself, or the number
\* a text spells (None when it spells none).
NumberOf(v) == IF v.t = "str" THEN StrToNumber(v.s) ELSE v

\* The field of the document stored under k as a text or as a number: the
\* field itself when it is of that kind, otherwise the entry of the index
\* of that kind, which agrees with the field; None when there is neither.
FieldAs(k, field, textual) ==
    LET a == Document(k)[field]
    IN  IF textual
        THEN (IF a.t = "str" THEN a ELSE IndexValue(k, field \o "_bin"))
        ELSE (IF a.t = "int" THEN a ELSE IndexValue(k, field \o "_int"))

\* The document stored under k satisfies the filter f: its field and the
\* value stand in the relation the operator names, as texts in byte order
\* when the value is a text and as numbers when it is a number.
Satisfies(k, f) ==
    LET textual == f.value.t \in {"str", "unicode"}
        a == FieldAs(k, f.field, textual)
        b == f.value
        eq == IF textual THEN a.s = b.s ELSE a.hi = b.hi /\ a.lo = b.lo
        lt == IF textual THEN StrLess(a.s, b.s)
              ELSE (a.hi < b.hi \/ (a.hi = b.hi /\ a.lo < b.lo))
    IN  /\ a # None
        /\ CASE f.op = "==" -> eq
             [] f.op = "<"  -> lt
             [] f.op = "<=" -> lt \/ eq
             [] f.op = ">"  -> ~lt /\ ~eq
             [] f.op = ">=" -> ~lt
             [] OTHER -> FALSE

Passing(fs) == {k \in store : \A i \in 1..Len(fs) : Satisfies(k, fs[i])}

YieldedKeys == [i \in 1..Len(yielded) |-> yielded[i].key]

\* The keys of S in the order of their age field, ascending or descending.
SortedByAge(S, direction) ==
    CHOOSE s \in [1..Cardinality(S) -> S] :
        /\ \A i, j \in 1..Cardinality(S) : i # j => s[i] # s[j]
        /\ \A i, j \in 1..Cardinality(S) :
              i < j => IF direction = "DESC"
                       THEN NumberOf(Document(s[i]).age).lo
                                >= NumberOf(Document(s[j]).age).lo
                       ELSE NumberOf(Document(s[i]).age).lo
                                <= NumberOf(Document(s[j]).age).lo

\* The elements of s at the positions [from, to), counted from 0.
Window(s, from, to) ==
    SubSeq(s, from + 1, IF to > Len(s) THEN Len(s) ELSE to)

FirstUnsupported(fs) ==
    CHOOSE i \in 1..Len(fs) :
        /\ fs[i].op \notin SupportedOps
        /\ \A j \in 1..(i - 1) : fs[j].op \in SupportedOps

-----------------------------------------------------------------------------
(* C1: the job submitted by any run() is built only from that run: its     *)
(* input is exactly the run's candidate key set, each key once (or the     *)
(* whole bucket), it has exactly one map stage, at most one ordering and   *)
(* at most one slicing reduce stage.  The code adds to the job object      *)
(* left by the run before: the statement is violated by a second run()     *)
(* with no reset() in between.                                             *)
C1_JobBuiltFromThisRun ==
    submitted # <<>> =>
        LET cand == UNION {IndexLookup(store, lookups[i]) : i \in 1..Len(lookups)}
        IN  /\ IF cand = {}
               THEN Job.mode = "bucket" /\ Job.inputs = EmptyInputs
               ELSE Job.mode = "keys" /\ Job.inputs = Once(cand)
            /\ Cardinality(StagesOf(Job, IsMap)) = 1
            /\ Cardinality(StagesOf(Job, IsOrdering)) <= 1
            /\ Cardinality(StagesOf(Job, IsSlice)) <= 1

(* C2: a step of run() (the call, the execution of the body in the latest  *)
(* generator or in an earlier one, an iteration, succeeding, falling back  *)
(* to the bucket or failing) leaves the filter list, the order, the offset *)
(* and the limit as they were.                                             *)
C2_RunKeepsQueryState ==
    [][(generator' # generator \/ unstarted' # unstarted \/ runs' > runs)
            => query_state' = query_state]_vars

\* A run with a filter has succeeded and yielded.
C2_Witness ==
    /\ pc = "done"
    /\ submitted # <<>>
    /\ filters # <<>>
    /\ yielded # <<>>

(* C3: after reset() and before any further builder call the builder has   *)
(* no filters, no order, offset 0 and limit 0; before a run its job is the *)
(* empty scaffold; and the job a body executed then builds and submits, in *)
(* the latest generator or in an earlier one, is the job run() submits on  *)
(* a newly constructed builder: the whole bucket and one map stage with    *)
(* the predicate true.                                                     *)
C3_ResetRestores ==
    [][(resets' > 0 /\ last_call' = NoCall) =>
        LET fresh == run_body(RiakMapReduce, <<>>, <<>>, 0, 0, store, 0).job
        IN  /\ filters' = <<>> /\ order' = <<>> /\ offset' = 0 /\ limit' = 0
            /\ runs' = 0 => (mr_query' = RiakMapReduce /\ mr_inputs' = {})
            /\ runs' > runs =>
                  /\ mr_query' = fresh
                  /\ fresh = [mode |-> "bucket", inputs |-> EmptyInputs,
                              phases |-> <<MapPhase(<<"true">>)>>]
                  /\ BodyStep => submitted' = <<fresh>>]_vars

\* A run right after a reset has submitted its job.
C3_Witness ==
    /\ resets > 0
    /\ last_call = NoCall
    /\ runs = 1
    /\ submitted # <<>>
    /\ mr_query = Job

(* C4: the first run on a builder with filters of supported operators, no  *)
(* order and limit 0 submits a job whose input holds every key a lookup    *)
(* returned and from which the engine computes exactly the documents that  *)
(* satisfy every filter; once the run has streamed to its end it has       *)
(* yielded exactly those documents, each once.  Violated: the job of a     *)
(* filter with a unicode or a long value does not compile (see C14), and   *)
(* the run raises where a document satisfies the filters.                  *)
C4_YieldsConjunction ==
    (runs = 1 /\ Supported(filters) /\ order = <<>> /\ limit = 0) =>
        /\ submitted # <<>> =>
              /\ \A k \in UnionOfLookups(filters) : Job.inputs[k] = 1
              /\ \E out \in Execute(Job, store) :
                    /\ out.raise = NoError
                    /\ {out.results[i].key : i \in 1..Len(out.results)}
                          = Passing(filters)
        /\ pc = "done" =>
              /\ {yielded[i].key : i \in 1..Len(yielded)} = Passing(filters)
              /\ Len(yielded) = Cardinality(Passing(filters))
              /\ \A i \in 1..Len(yielded) :
                    yielded[i].data = Document(yielded[i].key)

\* The first run over the filter age >= 31L: the lookup returned vishnu,
\* who satisfies the filter and is the input of the job; the engine cannot
\* execute the job and the run has raised.
C4_Witness ==
    /\ runs = 1 /\ order = <<>> /\ limit = 0
    /\ filters = <<Flt("age", ">=", Long(31))>>
    /\ Passing(filters) = {"vishnu"}
    /\ submitted # <<>>
    /\ Job.inputs = Once({"vishnu"})
    /\ \A out \in Execute(Job, store) : out.raise = JobError
    /\ pc = "failed" /\ raised = JobError /\ yielded = <<>>

(* C5: the input of the job submitted by the first run is the union of the *)
(* keys of the lookups of all filters, each key once; when the union is    *)
(* empty it is the whole bucket.                                           *)
C5_InputIsUnion ==
    (runs = 1 /\ submitted # <<>>) =>
        IF UnionOfLookups(filters) = {}
        THEN Job.mode = "bucket"
        ELSE Job.mode = "keys" /\ Job.inputs = Once(UnionOfLookups(filters))

\* Two lookups returned different keys, and a key of only one is an input.
C5_Witness ==
    /\ runs = 1 /\ submitted # <<>>
    /\ Len(filters) = 2
    /\ \E k \in store :
          /\ Job.inputs[k] = 1
          /\ k \in IndexLookup(store, LookupOf(filters[1]))
          /\ k \notin IndexLookup(store, LookupOf(filters[2]))
          /\ IndexLookup(store, LookupOf(filters[2])) # {}

(* C6, as claimed: a run() executed on a filter list fails with            *)
(* InvalidFilterOperation carrying the operator of every unsupported       *)
(* filter of the list, wherever it stands.                                 *)
C6_CarriesEveryOperator ==
    [][BodyStep =>
        \A i \in 1..Len(filters) :
            filters[i].op \notin SupportedOps =>
                raised' = InvalidFilterOperation(filters[i].op)]_vars

(* C6, amended: filter() appends its filter, whatever the operator, and    *)
(* raises nothing; a run() executed on a list that holds an unsupported    *)
(* operator fails and submits no job: with InvalidFilterOperation carrying *)
(* the operator of the first unsupported filter, or, when the store fails  *)
(* the lookup of a filter before that one, with the store's failure.       *)
C6_FirstUnsupportedOperator ==
    [][/\ Len(filters') > Len(filters) =>
            /\ Len(filters') = Len(filters) + 1
            /\ SubSeq(filters', 1, Len(filters)) = filters
            /\ generator' = generator
       /\ (BodyStep /\ ~Supported(filters)) =>
            /\ pc' = "failed"
            /\ submitted' = <<>>
            /\ \/ raised' = InvalidFilterOperation(
                                filters[FirstUnsupported(filters)].op)
               \/ /\ raised' = StoreError
                  /\ Len(lookups') < FirstUnsupported(filters)]_vars

\* The unsupported operator stands second: the first lookup was issued and
\* the run failed carrying the operator.
C6_Witness ==
    /\ pc = "failed"
    /\ Len(filters) = 2
    /\ filters[1].op \in SupportedOps
    /\ filters[2].op \notin SupportedOps
    /\ raised = InvalidFilterOperation(filters[2].op)
    /\ Len(lookups) = 1

(* C7: when the body fails in a lookup (unsupported operator or failure of *)
(* the store) the failure is what the caller gets, the lookups issued are  *)
(* those of the filters up to the failing one, each once and in order, no  *)
(* job is submitted and the job object is as before the run.               *)
C7_FailedLookupAborts ==
    [][(BodyStep /\ raised'.kind \in {"InvalidFilterOperation", "StoreError"}) =>
        /\ pc' = "failed"
        /\ submitted' = <<>>
        /\ mr_query' = mr_query
        /\ yielded' = <<>>
        /\ Len(lookups') <= Len(filters)
        /\ \A i \in 1..Len(lookups') : lookups'[i] = LookupOf(filters[i])
        /\ raised'.kind = "InvalidFilterOperation" =>
              /\ Len(lookups') = FirstUnsupported(filters) - 1
              /\ raised'.op = filters[FirstUnsupported(filters)].op
        /\ raised'.kind = "StoreError" =>
              /\ Len(lookups') >= 1
              /\ Supported(SubSeq(filters, 1, Len(lookups')))]_vars

\* The store failed the first of two lookups of a run on a job object that
\* an earlier run had filled.
C7_Witness ==
    /\ pc = "failed"
    /\ raised = StoreError
    /\ Len(filters) = 2
    /\ Len(lookups) = 1
    /\ submitted = <<>>
    /\ mr_query.phases # <<>>

(* C8, as claimed: the job of the first run has a slicing stage exactly    *)
(* when limit > 0.                                                         *)
C8_SliceIffLimitPositive ==
    (runs = 1 /\ submitted # <<>>) =>
        (StagesOf(Job, IsSlice) # {} <=> limit > 0)

(* C8, amended: the job of the first run has a slicing stage exactly when  *)
(* the limit is not 0 (a negative limit adds one too); it is the last      *)
(* stage and its window is [offset, offset+limit]; with limit 0 there is   *)
(* none, whatever the offset.                                              *)
C8_SliceIffLimitNonZero ==
    (runs = 1 /\ submitted # <<>>) =>
        IF limit # 0
        THEN /\ StagesOf(Job, IsSlice) = {Len(Job.phases)}
             /\ Job.phases[Len(Job.phases)].arg = <<offset, offset + limit>>
        ELSE StagesOf(Job, IsSlice) = {}

\* A run with offset 1 and limit 1 has submitted its job.
C8_Witness ==
    /\ runs = 1 /\ submitted # <<>>
    /\ offset = 1 /\ limit = 1
    /\ Job.phases[Len(Job.phases)].arg = <<1, 2>>

(* C9: with an order on the numeric field age, the first run, once it has  *)
(* streamed to its end, has yielded the documents that pass the filters    *)
(* sorted by age (ascending for ASC, descending for DESC), and with        *)
(* limit > 0 the elements at [offset, offset+limit) of that sequence.      *)
(* The comparator the code submits reads the field off the emitted         *)
(* (key, document) pair, where it is undefined: it orders nothing.         *)
C9_YieldsSortedWindow ==
    (/\ runs = 1 /\ pc = "done" /\ Supported(filters)
     /\ order # <<>> /\ limit >= 0 /\ offset >= 0) =>
        LET sorted == SortedByAge(Passing(filters), order[2])
        IN  YieldedKeys = IF limit > 0
                          THEN Window(sorted, offset, offset + limit)
                          ELSE sorted

(* C10: the lookups issued and the job submitted by a run() are those of   *)
(* the query state at the moment run() was called.  run() is a generator:  *)
(* its body reads the builder when the caller first iterates.              *)
C10_BoundAtCall ==
    (Executed /\ submitted # <<>>) =>
        /\ Len(lookups) = Len(called_with[1])
        /\ \A i \in 1..Len(lookups) : lookups[i] = LookupOf(called_with[1][i])
        /\ Job.phases[Len(Job.phases)] =
              LET at_call == job_stages(RiakMapReduce, called_with[1],
                                        called_with[2], called_with[3],
                                        called_with[4])
              IN  at_call.phases[Len(at_call.phases)]

\* The positions of the log at which a statement of the given kind stands.
EventsOf(kind) == {i \in 1..Len(events) : events[i].ev = kind}

\* The step of the run a statement belongs to.
StepOf(e) ==
    CASE e.ev = "lookup" -> 1
      [] e.ev \in {"new_job", "add_key"} -> 2
      [] e.ev = "map" -> 3
      [] e.ev = "order" -> 4
      [] e.ev = "slice" -> 5
      [] e.ev = "submit" -> 6
      [] e.ev = "yield" -> 7

(* C11: within one run() the lookups are issued one at a time in the order *)
(* of the filters, each once; every lookup is over before an input or a    *)
(* stage is added to the job; the map stage precedes the reduce stages;    *)
(* the job is submitted once, after its stages; no result is yielded       *)
(* before the submission; a run that reaches its end has taken every step. *)
C11_StepsInOrder ==
    /\ \A i, j \in 1..Len(events) :
          i < j => StepOf(events[i]) <= StepOf(events[j])
    /\ EventsOf("lookup") = 1..Len(lookups)
    /\ Len(lookups) <= Len(filters)
    /\ \A i \in EventsOf("lookup") :
          events[i].at = i /\ lookups[i] = LookupOf(filters[i])
    /\ \A kind \in {"new_job", "map", "order", "slice", "submit"} :
          Cardinality(EventsOf(kind)) <= 1
    /\ Cardinality(EventsOf("submit")) = Len(submitted)
    /\ Cardinality(EventsOf("yield")) = Len(yielded)
    /\ yielded # <<>> => submitted # <<>>
    /\ submitted # <<>> =>
          /\ Len(lookups) = Len(filters)
          /\ Cardinality(EventsOf("add_key")) = Cardinality(UnionOfLookups(filters))
          /\ EventsOf("new_job") # {} <=> UnionOfLookups(filters) = {}
          /\ Cardinality(EventsOf("map")) = 1
          /\ EventsOf("order") # {} <=> order # <<>>
          /\ EventsOf("slice") # {} <=> limit # 0
    /\ pc = "done" => (submitted # <<>> /\ pending = <<>>)
    /\ pc \in {"none", "created"} => events = <<>>

\* A run over two filters with an order and a limit took every step and
\* reached its end.
C11_Witness ==
    /\ pc = "done"
    /\ Len(filters) = 2
    /\ Cardinality(EventsOf("lookup")) = 2
    /\ EventsOf("add_key") # {}
    /\ EventsOf("order") # {}
    /\ EventsOf("slice") # {}
    /\ EventsOf("yield") # {}

(* C12: whenever an order and a limit > 0 are set, in the job a run()      *)
(* submits every ordering stage stands before every slicing stage and      *)
(* every map stage before both.  The job of a second run() without a       *)
(* reset() in between holds the stages of the first run in front of its    *)
(* own: map, order, slice, map, order, slice.                              *)
C12_OrderBeforeSlice ==
    (submitted # <<>> /\ order # <<>> /\ limit > 0) =>
        /\ StagesOf(Job, IsOrdering) # {}
        /\ StagesOf(Job, IsSlice) # {}
        /\ \A o \in StagesOf(Job, IsOrdering), sl \in StagesOf(Job, IsSlice) :
              o < sl
        /\ \A m \in StagesOf(Job, IsMap) :
              \A r \in StagesOf(Job, IsOrdering) \cup StagesOf(Job, IsSlice) :
                  m < r

(* C13: the job of the first run() on a builder constructed or reset has   *)
(* an ordering stage exactly when order() was called since; it has one,    *)
(* however many the calls; its comparator reads the field of the most      *)
(* recent call and is 'b - a' when the direction of that call is 'DESC',   *)
(* 'a - b' for any other direction.                                        *)
C13_OrderingStage ==
    [][(BodyStep /\ runs = 0 /\ submitted' # <<>>) =>
        LET job == submitted'[1]
            stages == StagesOf(job, IsOrdering)
        IN  /\ stages # {} <=> order_args # <<>>
            /\ Cardinality(stages) <= 1
            /\ order_args # <<>> =>
                  LET last == order_args[Len(order_args)]
                  IN  \A i \in stages :
                        job.phases[i].func =
                            IF last[2] = "DESC"
                            THEN "function(a, b) { return b." \o last[1]
                                     \o " - a." \o last[1] \o " }"
                            ELSE "function(a, b) { return a." \o last[1]
                                     \o " - b." \o last[1] \o " }"]_vars

\* order() was called twice with different arguments, last with a direction
\* that is neither 'ASC' nor 'DESC', and the first run has submitted its job.
C13_Witness ==
    /\ runs = 1
    /\ submitted # <<>>
    /\ Len(order_args) = 2
    /\ order_args[1] = <<"age", "DESC">>
    /\ order_args[2] = <<"name", "desc">>
    /\ \E i \in StagesOf(Job, IsOrdering) :
          Job.phases[i].func = "function(a, b) { return a.name - b.name }"

\* The literal of a filter value in the predicate: a decimal number, or a
\* string between single quotes, between double quotes when it holds a
\* single one.
\* The text or the number a filter value stands for.
ValueOf(v) ==
    IF v.t \in {"str", "unicode"}
    THEN [t |-> "str", s |-> v.s, hi |-> 0, lo |-> 0]
    ELSE [t |-> "int", s |-> "", hi |-> v.hi, lo |-> v.lo]

\* The text is the comparison of the filter f: it starts with 'data.' and
\* JavaScript reads from it the field, the operator and, as the literal,
\* the value of f.
IsComparisonOf(text, f) ==
    /\ SubSeq(text, 1, 5) = "data."
    /\ JsParsed(text) = [field |-> f.field, op |-> f.op,
                         value |-> ValueOf(f.value)]

LastOf(S) == CHOOSE i \in S : \A j \in S : j <= i

(* C14: every run() that assembles its job adds one map stage to it, also  *)
(* with zero filters; the predicate of that stage is the conjunction of    *)
(* one comparison 'data.<field> <op> <literal>' per filter, in insertion   *)
(* order, none dropped or duplicated, the literal being the filter's value *)
(* (a quoted string or a bare number), and the constant true without       *)
(* filters.  Violated: the literal of a unicode value is written u'...'    *)
(* and that of a long 31L, which JavaScript does not read as literals.     *)
(* (A run that fails in a lookup adds no map stage at all: C7.)            *)
C14_MapPredicate ==
    [][(BodyStep /\ submitted' # <<>>) =>
        LET job == submitted'[1]
            maps == StagesOf(job, IsMap)
        IN  /\ maps # {}
            /\ LastOf(maps) > Len(mr_query.phases) \/ job.mode = "bucket"
            /\ Cardinality(maps) =
                  IF job.mode = "bucket"
                  THEN 1
                  ELSE Cardinality(StagesOf(mr_query, IsMap)) + 1
            /\ LET cond == job.phases[LastOf(maps)].cond
               IN  IF filters = <<>>
                   THEN cond = <<"true">>
                   ELSE /\ Len(cond) = Len(filters)
                        /\ \A i \in 1..Len(filters) :
                              IsComparisonOf(cond[i], filters[i])]_vars

\* The first run over a unicode and a long value has submitted the job with
\* the predicate of their Python representations.
C14_Witness ==
    /\ runs = 1
    /\ submitted # <<>>
    /\ filters = <<Flt("name", ">", Uni("Sreejith")), Flt("age", ">=", Long(31))>>
    /\ Job.phases[1].cond = <<"data.name > u'Sreejith'", "data.age >= 31L">>
    /\ ~JsValid(Job.phases[1].cond)

\* +99999999999999999 and -99999999999999999, in limbs of nine digits.
PlusSentinel == [t |-> "int", s |-> "", hi |-> 99999999, lo |-> 999999999]
MinusSentinel == [t |-> "int", s |-> "", hi |-> -99999999, lo |-> -999999999]

(* C15: the lookup of a filter with a supported operator is on the index   *)
(* <field>_bin when the value is textual, with the empty string for both   *)
(* sentinels, and on <field>_int otherwise, with +99999999999999999 and    *)
(* -99999999999999999; '==' looks up the value itself, '>' and '>=' the    *)
(* range from the value to the upper sentinel, '<' and '<=' the range from *)
(* the lower sentinel to the value.                                        *)
C15_LookupOfFilter ==
    \A i \in 1..Len(lookups) :
        LET f == filters[i]
            q == lookups[i]
            textual == f.value.t \in {"str", "unicode"}
        IN  /\ f.op \in SupportedOps
            /\ q.index = f.field \o (IF textual THEN "_bin" ELSE "_int")
            /\ f.op = "==" => (q.startkey = f.value /\ q.endkey = None)
            /\ f.op \in {">", ">="} =>
                  /\ q.startkey = f.value
                  /\ q.endkey = IF textual THEN Str("") ELSE PlusSentinel
            /\ f.op \in {"<", "<="} =>
                  /\ q.startkey = IF textual THEN Str("") ELSE MinusSentinel
                  /\ q.endkey = f.value

\* '<' and '<=' with one number were looked up as the same range from the
\* lower sentinel.
C15_Witness ==
    /\ Len(lookups) = 2
    /\ filters = <<Flt("age", "<", Num(31)), Flt("age", "<=", Num(31))>>
    /\ lookups[1] = lookups[2]
    /\ lookups[1] = [index |-> "age_int", startkey |-> MinusSentinel,
                     endkey |-> Num(31)]

(* C16: a builder call returns the builder and changes its own component   *)
(* only: filter() appends its triple after the filters there are,          *)
(* offset() stores its argument (negative or not), limit() stores its      *)
(* argument, or 0 when it has none, order() stores its pair; the other     *)
(* components, the job and the generator (lookups issued, job submitted,   *)
(* exception raised) stay as they are.                                     *)
C16_CallChangesOwnComponent ==
    [][calls' = calls + 1 =>
        LET c == last_call'
        IN  /\ c.name \in {"filter", "offset", "limit", "order"}
            /\ c.returned = "self"
            /\ mr_query' = mr_query
            /\ mr_inputs' = mr_inputs
            /\ generator' = generator
            /\ c.name = "filter" =>
                  /\ filters' = filters \o <<c.args[1]>>
                  /\ <<offset', limit', order'>> = <<offset, limit, order>>
            /\ c.name = "offset" =>
                  /\ offset' = c.args[1]
                  /\ <<filters', limit', order'>> = <<filters, limit, order>>
            /\ c.name = "limit" =>
                  /\ limit' = (IF c.args = <<>> THEN 0 ELSE c.args[1])
                  /\ <<filters', offset', order'>> = <<filters, offset, order>>
            /\ c.name = "order" =>
                  /\ order' = <<c.args[1], c.args[2]>>
                  /\ <<filters', offset', limit'>> = <<filters, offset, limit>>]_vars

\* offset(-1) and then limit() without argument: the offset is -1 and the
\* limit 0.
C16_Witness ==
    /\ calls = 2
    /\ last_call = Call("limit", <<>>)
    /\ limit = 0
    /\ offset = -1
    /\ filters = <<>>
    /\ order = <<>>

(* C17: what run() yields is the list the engine returns for the submitted *)
(* job, in the engine's order, each result once: the first iteration       *)
(* yields its first result, every later one the next; when the list is at  *)
(* its end the next iteration ends the run; when the engine fails          *)
(* mid-stream the failure is raised at that iteration, the results yielded *)
(* before it stay yielded, and nothing is looked up or submitted again.    *)
C17_YieldsEngineStream ==
    [][/\ (BodyStep /\ submitted' # <<>>) =>
            \/ pc' = "failed" /\ raised' = JobError /\ yielded' = <<>>
            \/ /\ raised' = NoError
               /\ \E out \in Execute(submitted'[1], store) :
                     /\ out.raise = NoError
                     /\ yielded' \o pending' = out.results
               /\ pending' # <<>> => Len(yielded') = 1
               /\ pc' = IF yielded' = <<>> THEN "done" ELSE "streaming"
       /\ (pc = "streaming" /\ generator' # generator /\ pc' # "created") =>
            /\ submitted' = submitted
            /\ lookups' = lookups
            /\ mr_query' = mr_query
            /\ yielded' \o pending' = yielded \o pending
            /\ \/ /\ pending # <<>>
                  /\ yielded' = Append(yielded, Head(pending))
                  /\ pc' = "streaming" /\ raised' = NoError
               \/ /\ pending = <<>>
                  /\ yielded' = yielded
                  /\ pc' = "done" /\ raised' = NoError
               \/ /\ pending # <<>>
                  /\ yielded' = yielded
                  /\ pc' = "failed" /\ raised' = JobError
       /\ (pc \in {"done", "failed"} /\ generator' # generator) =>
            pc' = "created"]_vars

\* The engine failed after two results were yielded and before the third.
C17_Witness ==
    /\ pc = "failed"
    /\ raised = JobError
    /\ Len(yielded) = 2
    /\ Len(pending) = 1
    /\ yielded[1] # yielded[2]
    /\ Len(submitted) = 1

(* C18, as claimed: while the filter list holds an unsupported operator,   *)
(* every run() executed fails with InvalidFilterOperation.                 *)
C18_AlwaysInvalidFilterOperation ==
    [][(BodyStep /\ ~Supported(filters)) =>
        raised'.kind = "InvalidFilterOperation"]_vars

(* C18, amended: no step but reset() removes or replaces a filter, so a    *)
(* list that holds an unsupported operator holds it until reset(), and     *)
(* every run() executed on it fails and submits nothing: with              *)
(* InvalidFilterOperation for the first unsupported filter, or with the    *)
(* store's failure of a lookup that precedes it.  reset() empties the      *)
(* list, and a run() on a list without unsupported operators does not      *)
(* fail with InvalidFilterOperation.                                       *)
C18_FailsUntilReset ==
    [][/\ resets' = resets =>
            /\ Len(filters') >= Len(filters)
            /\ SubSeq(filters', 1, Len(filters)) = filters
            /\ ~Supported(filters) => ~Supported(filters')
       /\ resets' # resets => filters' = <<>>
       /\ (BodyStep /\ ~Supported(filters)) =>
            /\ pc' = "failed"
            /\ submitted' = <<>>
            /\ raised'.kind \in {"InvalidFilterOperation", "StoreError"}
            /\ raised'.kind = "InvalidFilterOperation" =>
                  raised'.op = filters[FirstUnsupported(filters)].op
            /\ raised'.kind = "StoreError" =>
                  /\ FirstUnsupported(filters) > 1
                  /\ Len(lookups') < FirstUnsupported(filters)
       /\ (BodyStep /\ Supported(filters)) =>
            raised'.kind # "InvalidFilterOperation"]_vars

\* Two runs were executed since the unsupported filter was appended, with
\* another filter() call since, and both failed before they touched the job.
C18_Witness ==
    /\ resets = 0
    /\ runs = 2
    /\ Len(filters) = 2
    /\ filters[1].op \notin SupportedOps
    /\ pc = "failed"
    /\ raised = InvalidFilterOperation(filters[1].op)
    /\ mr_query = RiakMapReduce

====
